---------------------------- MODULE Spec2Model ----------------------------
(***************************************************************************)
(* A model of aioexvhp/client.py: the session factory, and the request     *)
(* chains of the Imgur, JustStreamLive, Streamable, Streamja, Streamwo and  *)
(* Streamff clients.                                                        *)
(*                                                                          *)
(* One client call runs at a time.  Every call on the session              *)
(* (session.get/post/put) is appended to `calls' when the code issues it,   *)
(* and the response is appended to `resps' by the action that models the    *)
(* code resuming after the await.  The remote sites are the environment:    *)
(* each response is drawn from a small set of statuses and bodies.          *)
(***************************************************************************)
EXTENDS Integers, Sequences, FiniteSets, TLC

VARIABLES
    hdr,      \* per session: the value of its User-Agent header, or Absent
    client,   \* the client object most recently constructed: [cls, session]
    setups,   \* what the last run of _client_session_setup saw and returned
    pc,       \* position of the running call in its method body
    op,       \* the method that is running
    args,     \* its arguments
    loc,      \* its local variables
    calls,    \* external calls issued by the running call, in order
    resps,    \* responses received by the running call, in order
    parsed,   \* indices of the responses whose body was read (json()/text())
    ret,      \* << >>, or <<r>> once the call has returned r
    err       \* "none", or the exception that ended the call

vars == <<hdr, client, setups, pc, op, args, loc, calls, resps, parsed, ret, err>>

-----------------------------------------------------------------------------
(* Bounds of the model *)

\* number of session objects that can exist (made by the caller or by the
\* constructors)
MaxSessions == 2

\* number of tags in a scraped HTML page
MaxTags == 2

-----------------------------------------------------------------------------
(* Values *)

\* Python's None
NoneVal == "<None>"

\* session=None in a constructor: no session object is given
NoSession == 0

\* a header that is not in session.headers
Absent == "<absent>"

\* aioexvhp.default_user_agent
default_user_agent == "aioeXVHP/default"

\* user_agent arguments: None, or a string of the caller
UserAgentArgs == {NoneVal, "caller-agent"}

\* the User-Agent a caller may have put on the session it made itself
CallerHeaders == {Absent, "preset-agent"}

Classes == {"Imgur", "JustStreamLive", "Streamable", "Streamja", "Streamwo", "Streamff"}

\* a dict with string keys: a function whose domain is the set of keys present
EmptyDict == [k \in {} |-> NoneVal]

Has(d, k) == k \in DOMAIN d

\* all dicts whose keys are among Keys, with values given per key by Vals
DictsOver(Keys, Vals) ==
    UNION {{d \in [K -> UNION {Vals[k] : k \in K}] : \A k \in K : d[k] \in Vals[k]}
           : K \in SUBSET Keys}

-----------------------------------------------------------------------------
(* _client_session_setup *)

\* variant of SetupHeader: the header is written whether or not one is there
SetupHeaderAlways(found, user_agent) ==
    IF user_agent = NoneVal THEN default_user_agent ELSE user_agent

\* the header value stored at lines 40-45, given the header found
SetupHeader(found, user_agent) ==
    IF found = Absent
    THEN IF user_agent = NoneVal THEN default_user_agent ELSE user_agent
    ELSE found

\* the session returned: the one given, or a new one when session is None
SetupSession(h, session) ==
    IF session = NoSession THEN Len(h) + 1 ELSE session

\* session.headers of every session after _client_session_setup(session, user_agent)
client_session_setup(h, session, user_agent) ==
    LET s  == SetupSession(h, session)
        h0 == IF session = NoSession THEN Append(h, Absent) ELSE h
    IN  [h0 EXCEPT ![s] = SetupHeader(h0[s], user_agent)]

\* no constructor has run since the last call
NoSetup == [ran |-> FALSE, given |-> NoSession, found |-> Absent, user_agent |-> NoneVal]

\* __init__ of each of the six client classes; the record of the call that ran
\* before it is dropped
Construct(cls, session, user_agent) ==
    /\ pc \in {"idle", "done"}
    /\ session = NoSession => Len(hdr) < MaxSessions
    /\ hdr' = client_session_setup(hdr, session, user_agent)
    /\ client' = [cls |-> cls, session |-> SetupSession(hdr, session)]
    /\ setups' = [ran |-> TRUE, given |-> session,
                  found |-> IF session = NoSession THEN Absent ELSE hdr[session],
                  user_agent |-> user_agent]
    /\ pc' = "idle" /\ op' = "none" /\ args' = EmptyDict /\ loc' = EmptyDict
    /\ calls' = << >> /\ resps' = << >> /\ parsed' = {} /\ ret' = << >> /\ err' = "none"

-----------------------------------------------------------------------------
(* Requests, responses and the bookkeeping of a call *)

\* one call on the session (or on the S3 client): method, URL parts, payload
Req(method, url, data) == [method |-> method, url |-> url, data |-> data]

JsonBody(d) == [kind |-> "json", json |-> d, tags |-> << >>]
HtmlBody(t) == [kind |-> "html", json |-> EmptyDict, tags |-> t]
TextBody    == [kind |-> "text", json |-> EmptyDict, tags |-> << >>]

\* the responses the environment may give to the n-th call
Responses(n, Bodies) ==
    {[n |-> n, ok |-> o, body |-> b] : o \in BOOLEAN, b \in Bodies}

Idle == pc \in {"idle", "done"}

\* what a method does next: return a response, raise, or issue one more call
Ret(r)      == [t |-> "return", r |-> r]
Exc(e)      == [t |-> "raise", e |-> e]
Go(q, next) == [t |-> "issue", q |-> q, next |-> next]

\* the result of running a method from one await to the next: what it does
\* next, its locals, and whether it read the body of the response it got
K(out, l, read) == [out |-> out, loc |-> l, read |-> read]

\* a method of class cls is called on the current client and runs up to its
\* first await (out is Go) or raises before it (out is Exc); the record of the
\* constructor that ran before it is dropped
StartChain(o, a, out) ==
    /\ op' = o
    /\ args' = a
    /\ loc' = EmptyDict
    /\ resps' = << >>
    /\ parsed' = {}
    /\ ret' = << >>
    /\ IF out.t = "issue"
       THEN calls' = <<out.q>> /\ pc' = out.next /\ err' = "none"
       ELSE calls' = << >> /\ pc' = "done" /\ err' = out.e

Start(cls, o, a, out) ==
    /\ client.cls = cls
    /\ StartChain(o, a, out)
    /\ setups' = NoSetup
    /\ UNCHANGED <<hdr, client>>

\* the awaited call completes with r and the method runs on as k says
Resume(r, k) ==
    /\ resps' = Append(resps, r)
    /\ parsed' = IF k.read THEN parsed \cup {r.n} ELSE parsed
    /\ loc' = k.loc
    /\ CASE k.out.t = "return" ->
              pc' = "done" /\ ret' = <<k.out.r>> /\ UNCHANGED <<err, calls>>
         [] k.out.t = "raise" ->
              pc' = "done" /\ err' = k.out.e /\ UNCHANGED <<ret, calls>>
         [] k.out.t = "issue" ->
              pc' = k.out.next /\ calls' = Append(calls, k.out.q)
              /\ UNCHANGED <<ret, err>>
    /\ UNCHANGED <<hdr, client, setups, op, args>>

\* a response whose body the chain does not look at
PlainBodies == {TextBody}

-----------------------------------------------------------------------------
(* Strings as sequences of characters *)

\* variant of EndsWith: a substring test in place of the suffix test
EndsWithAnywhere(s, suffix) ==
    \E i \in 1 .. Len(s) - Len(suffix) + 1 : SubSeq(s, i, i + Len(suffix) - 1) = suffix

\* str.endswith
EndsWith(s, suffix) ==
    /\ Len(s) >= Len(suffix)
    /\ SubSeq(s, Len(s) - Len(suffix) + 1, Len(s)) = suffix

DotMp4 == <<".", "m", "p", "4">>

\* media filenames handed to Imgur.upload_media
MediaFilenames ==
    { << >>,
      DotMp4,
      <<"a">> \o DotMp4,
      <<"m", "p", "4">>,
      <<"a", ".", "M", "P", "4">>,
      <<"a">> \o DotMp4 \o <<"x">>,
      <<"a">> \o DotMp4 \o <<".", "p", "n", "g">>,
      <<"a", ".", "p", "n", "g">>,
      <<"a", ".", "m", "p">> }

-----------------------------------------------------------------------------
(* Imgur *)

Imgur_api_url == "https://api.imgur.com"
Imgur_client_id == "546c25a59c58ad7"

\* the POST of Imgur.upload_media, lines 109-128
Imgur_upload_request(media_filename) ==
    Req("POST", <<Imgur_api_url, "/3/image">>,
        [field |-> IF EndsWith(media_filename, DotMp4) THEN "video" ELSE "image",
         filename |-> media_filename,
         type |-> "file",
         name |-> media_filename,
         client_id |-> Imgur_client_id])

\* Imgur.upload_media, lines 101-128, up to its await
Imgur_upload_media(media_filename) ==
    IF ~EndsWith(media_filename, DotMp4)
    THEN Exc("UnsupportedMediaType")
    ELSE Go(Imgur_upload_request(media_filename), "im_post")

Imgur_upload_media_call ==
    /\ Idle
    /\ \E f \in MediaFilenames :
           Start("Imgur", "Imgur.upload_media", [media_filename |-> f],
                 Imgur_upload_media(f))

\* line 124: the response of the POST is returned
Imgur_upload_media_done ==
    /\ pc = "im_post"
    /\ \E r \in Responses(Len(calls), PlainBodies) : Resume(r, K(Ret(r), loc, FALSE))

-----------------------------------------------------------------------------
(* Streamable: upload_video *)

Streamable_api_url  == "https://ajax.streamable.com"
Streamable_base_url == "https://streamable.com"
Streamja_base_url   == "https://streamja.com"
Streamwo_base_url   == "https://streamwo.com"
Streamff_base_url   == "https://streamff.com"
frontend_react_version == "03db98af3545197e67cb96893d9e9d8729eee743"

Shortcodes == {"scA", "scB"}

\* sizes of the uploaded file object, as seek/tell report them
VideoSizes == {0, 9}

VideoTitles == {NoneVal, "title"}

\* the JSON of GET /shortcode; a nested key is written with its path
SlotKeys == {"shortcode", "credentials.accessKeyId", "credentials.secretAccessKey",
             "credentials.sessionToken", "transcoder_options.token"}

SlotVals == [k \in SlotKeys |->
               IF k = "shortcode" THEN Shortcodes ELSE {"value of " \o k}]

\* every key present, or one key missing
SlotDicts == {d \in DictsOver(SlotKeys, SlotVals) : Cardinality(DOMAIN d) >= Cardinality(SlotKeys) - 1}

SlotBodies == {JsonBody(d) : d \in SlotDicts} \cup {TextBody}

\* Streamable.generate_upload_shortcode
Streamable_generate_upload_shortcode(video_sz) ==
    Req("GET", <<Streamable_api_url, "/shortcode">>,
        [version |-> frontend_react_version, size |-> video_sz])

\* Streamable.update_video_metadata; Path(video_filename).stem is left as "stem"
Streamable_update_video_metadata(video_shortcode, video_filename, video_size, video_title) ==
    Req("PUT", <<Streamable_api_url, "/videos/", video_shortcode>>,
        [original_name |-> video_filename,
         original_size |-> video_size,
         title |-> IF video_title # NoneVal THEN video_title ELSE "stem",
         upload_source |-> "web"])

\* boto3 client("s3", ...).upload_fileobj, lines 422-432
S3_upload_fileobj(l) ==
    Req("S3.upload_fileobj", <<"streamables-upload", "upload/", l.shortcode>>,
        [aws_access_key_id |-> l.access_key_id,
         aws_secret_access_key |-> l.secret_access_key,
         aws_session_token |-> l.session_token,
         ACL |-> "public-read"])

\* Streamable.start_transcode_upload
Streamable_start_transcode_upload(video_shortcode, video_size, transcoder_token) ==
    Req("POST", <<Streamable_api_url, "/transcode/", video_shortcode>>,
        [shortcode |-> video_shortcode,
         size |-> video_size,
         token |-> transcoder_token,
         upload_source |-> "web",
         url |-> <<"https://streamables-upload.s3.amazonaws.com", "/upload/",
                   video_shortcode>>])

\* lines 400-404
Streamable_upload_video(a) ==
    Go(Streamable_generate_upload_shortcode(a.video_sz), "su_slot")

\* variant of Streamable_upload_video_slot: res.ok is not tested
Streamable_upload_video_slot_Unchecked(a, l, res) ==
    IF res.body.kind # "json" THEN K(Exc("ContentTypeError"), l, TRUE)
    ELSE IF ~(SlotKeys \subseteq DOMAIN res.body.json) THEN K(Exc("KeyError"), l, TRUE)
    ELSE LET j  == res.body.json
             l2 == [shortcode |-> j["shortcode"],
                    access_key_id |-> j["credentials.accessKeyId"],
                    secret_access_key |-> j["credentials.secretAccessKey"],
                    session_token |-> j["credentials.sessionToken"],
                    transcoder_token |-> j["transcoder_options.token"]]
         IN  K(Go(Streamable_update_video_metadata(
                      l2.shortcode, a.video_filename, a.video_sz, a.video_title),
                  "su_meta"), l2, TRUE)

\* lines 406-419 and 440: after generate_upload_shortcode
Streamable_upload_video_slot(a, l, res) ==
    IF ~res.ok THEN K(Ret(res), l, FALSE)
    ELSE IF res.body.kind # "json" THEN K(Exc("ContentTypeError"), l, TRUE)
    ELSE IF ~(SlotKeys \subseteq DOMAIN res.body.json) THEN K(Exc("KeyError"), l, TRUE)
    ELSE LET j  == res.body.json
             l2 == [shortcode |-> j["shortcode"],
                    access_key_id |-> j["credentials.accessKeyId"],
                    secret_access_key |-> j["credentials.secretAccessKey"],
                    session_token |-> j["credentials.sessionToken"],
                    transcoder_token |-> j["transcoder_options.token"]]
         IN  K(Go(Streamable_update_video_metadata(
                      l2.shortcode, a.video_filename, a.video_sz, a.video_title),
                  "su_meta"), l2, TRUE)

\* variant of Streamable_upload_video_meta: res.ok is not tested
Streamable_upload_video_meta_Unchecked(a, l, res) ==
    K(Go(S3_upload_fileobj(l), "su_transfer"), l, FALSE)

\* variant of Streamable_upload_video_meta: the transcode is started without
\* the transfer
Streamable_upload_video_meta_NoTransfer(a, l, res) ==
    IF ~res.ok THEN K(Ret(res), l, FALSE)
    ELSE K(Go(Streamable_start_transcode_upload(l.shortcode, a.video_sz,
                                                l.transcoder_token),
              "su_transcode"), l, FALSE)

\* lines 421-432 and 440: after update_video_metadata
Streamable_upload_video_meta(a, l, res) ==
    IF ~res.ok THEN K(Ret(res), l, FALSE)
    ELSE K(Go(S3_upload_fileobj(l), "su_transfer"), l, FALSE)

\* lines 434-438: after upload_fileobj has returned
Streamable_upload_video_transfer(a, l) ==
    Go(Streamable_start_transcode_upload(l.shortcode, a.video_sz, l.transcoder_token),
       "su_transcode")

Streamable_upload_video_call ==
    /\ Idle
    /\ \E sz \in VideoSizes, t \in VideoTitles :
           LET a == [video_filename |-> "clip.mp4", video_title |-> t, video_sz |-> sz]
           IN  Start("Streamable", "Streamable.upload_video", a, Streamable_upload_video(a))

Streamable_upload_video_after_slot ==
    /\ pc = "su_slot"
    /\ \E r \in Responses(Len(calls), SlotBodies) :
           Resume(r, Streamable_upload_video_slot(args, loc, r))

Streamable_upload_video_after_meta ==
    /\ pc = "su_meta"
    /\ \E r \in Responses(Len(calls), PlainBodies) :
           Resume(r, Streamable_upload_video_meta(args, loc, r))

\* upload_fileobj returns None (recorded as a completion), or raises
TransferDone(n) == [n |-> n, ok |-> TRUE, body |-> TextBody]

Streamable_upload_video_after_transfer ==
    /\ pc = "su_transfer"
    /\ \/ Resume(TransferDone(Len(calls)),
                 K(Streamable_upload_video_transfer(args, loc), loc, FALSE))
       \/ /\ pc' = "done" /\ err' = "S3UploadFailedError"
          /\ UNCHANGED <<hdr, client, setups, op, args, loc, calls, resps, parsed, ret>>

\* line 440: the response of start_transcode_upload is returned
Streamable_upload_video_done ==
    /\ pc = "su_transcode"
    /\ \E r \in Responses(Len(calls), PlainBodies) : Resume(r, K(Ret(r), loc, FALSE))

-----------------------------------------------------------------------------
(* Streamff and Streamja: upload_video *)

\* upload ids as the text of the generate-link response
LinkBodies == {TextBody}

\* Streamff.generate_link
Streamff_generate_link ==
    Req("POST", <<Streamff_base_url, "/api/videos/generate-link">>, EmptyDict)

\* the multipart POST of Streamff.upload_video, lines 830-841
Streamff_upload_request(video_filename, n) ==
    Req("POST", <<Streamff_base_url, "/api/videos/upload/", "text of response", n>>,
        [field |-> "file", filename |-> video_filename])

\* line 825
Streamff_upload_video(a) == Go(Streamff_generate_link, "fu_link")

\* variant of Streamff_upload_video_link: the test of res.ok is inverted
Streamff_upload_video_link_Inverted(a, l, res) ==
    IF res.ok THEN K(Exc("UnexpectedResponse"), l, FALSE)
    ELSE K(Go(Streamff_upload_request(a.video_filename, res.n), "fu_post"), l, TRUE)

\* variant of Streamff_upload_video_link: the failed response is returned
Streamff_upload_video_link_ReturnsResponse(a, l, res) ==
    IF ~res.ok THEN K(Ret(res), l, FALSE)
    ELSE K(Go(Streamff_upload_request(a.video_filename, res.n), "fu_post"), l, TRUE)

\* lines 827-841: after generate_link
Streamff_upload_video_link(a, l, res) ==
    IF ~res.ok THEN K(Exc("UnexpectedResponse"), l, FALSE)
    ELSE K(Go(Streamff_upload_request(a.video_filename, res.n), "fu_post"), l, TRUE)

Streamff_upload_video_call ==
    /\ Idle
    /\ LET a == [video_filename |-> "clip.mp4"]
       IN  Start("Streamff", "Streamff.upload_video", a, Streamff_upload_video(a))

Streamff_upload_video_after_link ==
    /\ pc = "fu_link"
    /\ \E r \in Responses(Len(calls), LinkBodies) :
           Resume(r, Streamff_upload_video_link(args, loc, r))

\* line 838: the response of the upload POST is returned
Streamff_upload_video_done ==
    /\ pc = "fu_post"
    /\ \E r \in Responses(Len(calls), PlainBodies) : Resume(r, K(Ret(r), loc, FALSE))

\* the JSON of POST /shortId.php
ShortIdVals == [k \in {"shortId", "error"} |->
                  IF k = "shortId" THEN {"idA", "idB"} ELSE {NoneVal, "failed"}]

ShortIdBodies ==
    {JsonBody(d) : d \in DictsOver({"shortId", "error"}, ShortIdVals)} \cup {TextBody}

\* Streamja.generate_upload_shortcode
Streamja_generate_upload_shortcode ==
    Req("POST", <<Streamja_base_url, "/shortId.php">>, [new |-> 1])

\* the multipart POST of Streamja.upload_video, lines 708-720
Streamja_upload_request(video_filename, shortId) ==
    Req("POST", <<Streamja_base_url, "/upload.php">>,
        [shortId |-> shortId, field |-> "file", filename |-> video_filename])

\* line 705
Streamja_upload_video(a) == Go(Streamja_generate_upload_shortcode, "ju_id")

\* variant of Streamja_upload_video_id: the error field is not looked at
Streamja_upload_video_id_IgnoresError(a, l, res) ==
    IF ~res.ok THEN K(Ret(res), l, FALSE)
    ELSE IF res.body.kind # "json" THEN K(Exc("ContentTypeError"), l, TRUE)
    ELSE IF ~Has(res.body.json, "shortId") THEN K(Exc("KeyError"), l, TRUE)
    ELSE K(Go(Streamja_upload_request(a.video_filename, res.body.json["shortId"]),
              "ju_post"), l, TRUE)

\* lines 707-722: after generate_upload_shortcode
Streamja_upload_video_id(a, l, res) ==
    IF ~res.ok THEN K(Ret(res), l, FALSE)
    ELSE IF res.body.kind # "json" THEN K(Exc("ContentTypeError"), l, TRUE)
    ELSE IF Has(res.body.json, "error") THEN K(Ret(res), l, TRUE)
    ELSE IF ~Has(res.body.json, "shortId") THEN K(Exc("KeyError"), l, TRUE)
    ELSE K(Go(Streamja_upload_request(a.video_filename, res.body.json["shortId"]),
              "ju_post"), l, TRUE)

Streamja_upload_video_call ==
    /\ Idle
    /\ LET a == [video_filename |-> "clip.mp4"]
       IN  Start("Streamja", "Streamja.upload_video", a, Streamja_upload_video(a))

Streamja_upload_video_after_id ==
    /\ pc = "ju_id"
    /\ \E r \in Responses(Len(calls), ShortIdBodies) :
           Resume(r, Streamja_upload_video_id(args, loc, r))

\* line 722: the response of the upload POST is returned
Streamja_upload_video_done ==
    /\ pc = "ju_post"
    /\ \E r \in Responses(Len(calls), PlainBodies) : Resume(r, K(Ret(r), loc, FALSE))

-----------------------------------------------------------------------------
(* get_video of Streamable, Streamja, Streamwo and Streamff *)

VideoIds == {"abc123"}

Tag(name, attrs) == [name |-> name, attrs |-> attrs]

OgVideo == "og:video:secure_url"

\* the tags a scraped page is made of, in document order
PageTags ==
    { Tag("source", [src |-> "https://cdn/abc123.mp4"]),
      Tag("source", [src |-> "https://cdn/other.mp4"]),
      Tag("source", [type |-> "video/mp4"]),
      Tag("meta",   [property |-> OgVideo, content |-> "https://cdn/og.mp4"]),
      Tag("meta",   [property |-> "og:title", content |-> "https://cdn/title"]) }

Pages == UNION {[1 .. n -> PageTags] : n \in 0 .. MaxTags}

PageBodies == {HtmlBody(p) : p \in Pages}

VideoLinkBodies ==
    {JsonBody(d) : d \in DictsOver({"videoLink"},
                                   [k \in {"videoLink"} |-> {"/uploads/abc123.mp4"}])}
    \cup {TextBody}

\* BeautifulSoup.find_all(name, attrs=attrs): the matching tags in document order
find_all(page, name, attrs) ==
    SelectSeq(page, LAMBDA t :
        /\ t.name = name
        /\ \A k \in DOMAIN attrs : Has(t.attrs, k) /\ t.attrs[k] = attrs[k])

\* tags[0][key] of Python: the URL, or the exception the expression raises
First(tags, key) ==
    IF tags = << >> THEN [e |-> "IndexError", url |-> << >>]
    ELSE IF ~Has(tags[1].attrs, key) THEN [e |-> "KeyError", url |-> << >>]
    ELSE [e |-> "none", url |-> <<tags[1].attrs[key]>>]

\* variant of First: tags[-1][key]
Last(tags, key) ==
    IF tags = << >> THEN [e |-> "IndexError", url |-> << >>]
    ELSE IF ~Has(tags[Len(tags)].attrs, key) THEN [e |-> "KeyError", url |-> << >>]
    ELSE [e |-> "none", url |-> <<tags[Len(tags)].attrs[key]>>]

\* variant of MediaUrl: the last <source> tag is taken
MediaUrl_LastTag(cls, body) ==
    Last(find_all(body.tags, "source", EmptyDict), "src")

\* the URL of the second request of get_video, from the body of the first
MediaUrl(cls, body) ==
    CASE cls \in {"Streamja", "Streamwo"} ->
            First(find_all(body.tags, "source", EmptyDict), "src")
      [] cls = "Streamable" ->
            First(find_all(body.tags, "meta", [property |-> OgVideo]), "content")
      [] cls = "Streamff" ->
            IF body.kind # "json" THEN [e |-> "ContentTypeError", url |-> << >>]
            ELSE IF ~Has(body.json, "videoLink") THEN [e |-> "KeyError", url |-> << >>]
            ELSE [e |-> "none", url |-> <<Streamff_base_url, body.json["videoLink"]>>]

\* the first request of get_video
PageRequest(cls, video_id) ==
    CASE cls = "Streamable" -> Req("GET", <<Streamable_base_url, "/", video_id>>, EmptyDict)
      [] cls = "Streamja"   -> Req("GET", <<Streamja_base_url, "/", video_id>>, EmptyDict)
      [] cls = "Streamwo"   -> Req("GET", <<Streamwo_base_url, "/", video_id>>, EmptyDict)
      [] cls = "Streamff"   ->
            Req("GET", <<Streamff_base_url, "/api/videos/", video_id>>, EmptyDict)

FirstBodies(cls) == IF cls = "Streamff" THEN VideoLinkBodies ELSE PageBodies

get_video(cls, a) == Go(PageRequest(cls, a.video_id), "gv_page")

\* variant of get_video_page: res.ok is not tested
get_video_page_Unchecked(cls, a, l, res) ==
    LET m == MediaUrl(cls, res.body)
    IN  IF m.e # "none" THEN K(Exc(m.e), l, TRUE)
        ELSE K(Go(Req("GET", m.url, EmptyDict), "gv_media"), l, TRUE)

\* get_video after its first request: lines 662-673, 727-735, 786-794, 848-853
get_video_page(cls, a, l, res) ==
    IF ~res.ok THEN K(Ret(res), l, FALSE)
    ELSE LET m == MediaUrl(cls, res.body)
         IN  IF m.e # "none" THEN K(Exc(m.e), l, TRUE)
             ELSE K(Go(Req("GET", m.url, EmptyDict), "gv_media"), l, TRUE)

GetVideoClasses == {"Streamable", "Streamja", "Streamwo", "Streamff"}

get_video_call ==
    /\ Idle
    /\ \E cls \in GetVideoClasses, v \in VideoIds :
           LET a == [video_id |-> v]
           IN  Start(cls, cls \o ".get_video", a, get_video(cls, a))

get_video_after_page ==
    /\ pc = "gv_page"
    /\ \E r \in Responses(Len(calls), FirstBodies(client.cls)) :
           Resume(r, get_video_page(client.cls, args, loc, r))

\* the response of the second request is returned
get_video_done ==
    /\ pc = "gv_media"
    /\ \E r \in Responses(Len(calls), PlainBodies) : Resume(r, K(Ret(r), loc, FALSE))

-----------------------------------------------------------------------------
(* JustStreamLive.mirror_streamff_video *)

JustStreamLive_api_url == "https://api.juststream.live"

\* JustStreamLive.upload_video, with the content of response n as the file
JustStreamLive_upload_video(n, video_filename) ==
    Req("POST", <<JustStreamLive_api_url, "/videos/upload">>,
        [field |-> "file", content_of |-> n, filename |-> video_filename])

\* variant of mirror_upload: video_res.ok is not tested
mirror_upload_Unchecked(a, l, video_res) ==
    Go(JustStreamLive_upload_video(video_res.n, a.mirror_filename), "ms_upload")

\* lines 242-245: video_res is what Streamff.get_video returned
mirror_upload(a, l, video_res) ==
    IF ~video_res.ok THEN Ret(video_res)
    ELSE Go(JustStreamLive_upload_video(video_res.n, a.mirror_filename), "ms_upload")

\* line 240, Streamff.get_video after its first request, then lines 242-245
mirror_streamff_video_page(a, l, res) ==
    LET k == get_video_page("Streamff", a, l, res)
    IN  CASE k.out.t = "return" -> K(mirror_upload(a, l, k.out.r), l, k.read)
          [] k.out.t = "raise"  -> k
          [] k.out.t = "issue"  -> K(Go(k.out.q, "ms_media"), l, k.read)

\* lines 237-240: a Streamff client is made over the own session unless one is
\* given, and its get_video issues the first request
mirror_streamff_video_call ==
    \E v \in VideoIds, given \in BOOLEAN :
        LET a == [video_id |-> v, mirror_filename |-> "Mirror.mp4",
                  streamff_client |-> given]
        IN  /\ Idle
            /\ client.cls = "JustStreamLive"
            /\ StartChain("JustStreamLive.mirror_streamff_video", a,
                          Go(PageRequest("Streamff", v), "ms_page"))
            /\ IF given
               THEN setups' = NoSetup /\ UNCHANGED hdr
               ELSE /\ hdr' = client_session_setup(hdr, client.session, NoneVal)
                    /\ setups' = [ran |-> TRUE, given |-> client.session,
                                  found |-> hdr[client.session],
                                  user_agent |-> NoneVal]
            /\ UNCHANGED client

mirror_streamff_video_after_page ==
    /\ pc = "ms_page"
    /\ \E r \in Responses(Len(calls), VideoLinkBodies) :
           Resume(r, mirror_streamff_video_page(args, loc, r))

mirror_streamff_video_after_media ==
    /\ pc = "ms_media"
    /\ \E r \in Responses(Len(calls), PlainBodies) :
           Resume(r, K(mirror_upload(args, loc, r), loc, FALSE))

\* line 245: the response of the upload is returned
mirror_streamff_video_done ==
    /\ pc = "ms_upload"
    /\ \E r \in Responses(Len(calls), PlainBodies) : Resume(r, K(Ret(r), loc, FALSE))

-----------------------------------------------------------------------------
(* Streamable: clip_video, clip_streamja_video, clip_streamwo_video,         *)
(* clip_streamff_video                                                       *)

ClipSites == {"streamable", "streamja", "streamwo", "streamff"}

MirrorTitles == {NoneVal, "mirror"}

ErrorVals == {NoneVal, "extraction failed"}

\* the JSON of GET /extract
ExtractVals == [k \in {"error", "url", "headers", "shortcode"} |->
                  CASE k = "error"     -> ErrorVals
                    [] k = "url"       -> {"https://cdn/direct.mp4"}
                    [] k = "headers"   -> {"extract headers"}
                    [] k = "shortcode" -> {"scX"}]

ExtractBodies ==
    {JsonBody(d) : d \in DictsOver({"error", "url", "headers", "shortcode"}, ExtractVals)}
    \cup {TextBody}

\* the JSON of POST /videos
RegisterVals == [k \in {"error", "shortcode"} |->
                   IF k = "error" THEN ErrorVals ELSE Shortcodes]

RegisterBodies ==
    {JsonBody(d) : d \in DictsOver({"error", "shortcode"}, RegisterVals)} \cup {TextBody}

\* the page URL of a video on its site
SiteUrl(site, video_id) ==
    CASE site = "streamable" -> <<Streamable_base_url, "/", video_id>>
      [] site = "streamja"   -> <<Streamja_base_url, "/", video_id>>
      [] site = "streamwo"   -> <<Streamwo_base_url, "/", video_id>>
      [] site = "streamff"   -> <<Streamff_base_url, "/v/", video_id>>

Extractor(site) == IF site = "streamable" THEN "streamable" ELSE "generic"

\* GET /extract, lines 447-450, 495-498, 543-546, 598-601
ExtractRequest(url) ==
    Req("GET", <<Streamable_api_url, "/extract">>, [url |-> url])

\* Streamable.generate_<site>_clip_shortcode, lines 275-341
generate_clip_shortcode(site, video_id, mirror_title) ==
    Req("POST", <<Streamable_api_url, "/videos">>,
        [extract_id |-> video_id,
         extractor |-> Extractor(site),
         source |-> SiteUrl(site, video_id),
         status |-> 1,
         title |-> mirror_title,
         upload_source |-> "clip"])

\* POST /transcode/{new_mirror_shortcode}, lines 470-486 and its three copies
ClipTranscodeRequest(site, new_mirror_shortcode, l, mirror_title) ==
    Req("POST", <<Streamable_api_url, "/transcode/", new_mirror_shortcode>>,
        [extractor |-> Extractor(site),
         headers |-> l.shortcode_vid_headers,
         mute |-> FALSE,
         shortcode |-> new_mirror_shortcode,
         thumb_offset |-> NoneVal,
         title |-> IF mirror_title = NoneVal THEN "" ELSE mirror_title,
         upload_source |-> "clip",
         url |-> l.shortcode_vid_url])

\* the first request of a clip chain
clip(site, a) ==
    IF site = "streamff"
    THEN Go(Req("GET", <<Streamff_base_url, "/api/videos/", a.video_id>>, EmptyDict),
            "cl_lookup")
    ELSE Go(ExtractRequest(SiteUrl(site, a.video_id)), "cl_extract")

\* clip_streamff_video, lines 595-601: res.json() is not awaited, so its
\* subscript raises TypeError before the extract request is made
clip_lookup(a, l, res) ==
    IF ~res.ok THEN K(Ret(res), l, FALSE)
    ELSE K(Exc("TypeError"), l, FALSE)

\* `"error" not in d or d["error"] is None'
NoError(d) == ~Has(d, "error") \/ d["error"] = NoneVal

\* variant of clip_extract: the error field is not looked at
clip_extract_IgnoresError(site, a, l, res) ==
    IF ~res.ok THEN K(Ret(res), l, FALSE)
    ELSE IF res.body.kind # "json" THEN K(Exc("ContentTypeError"), l, TRUE)
    ELSE IF ~Has(res.body.json, "url") \/ ~Has(res.body.json, "headers")
         THEN K(Exc("KeyError"), l, TRUE)
    ELSE K(Go(generate_clip_shortcode(site, a.video_id, a.mirror_title), "cl_register"),
           [respJsonData |-> res.body.json,
            shortcode_vid_url |-> res.body.json["url"],
            shortcode_vid_headers |-> res.body.json["headers"]],
           TRUE)

\* lines 452-462 and their three copies: after the extract request
clip_extract(site, a, l, res) ==
    IF ~res.ok THEN K(Ret(res), l, FALSE)
    ELSE IF res.body.kind # "json" THEN K(Exc("ContentTypeError"), l, TRUE)
    ELSE IF ~NoError(res.body.json) THEN K(Ret(res), l, TRUE)
    ELSE IF ~Has(res.body.json, "url") \/ ~Has(res.body.json, "headers")
         THEN K(Exc("KeyError"), l, TRUE)
    ELSE K(Go(generate_clip_shortcode(site, a.video_id, a.mirror_title), "cl_register"),
           [respJsonData |-> res.body.json,
            shortcode_vid_url |-> res.body.json["url"],
            shortcode_vid_headers |-> res.body.json["headers"]],
           TRUE)

\* lines 468-486 and their copies: the condition of line 464 held, with
\* respJsonData as the condition left it.  Line 516 (clip_streamja_video)
\* subscripts res.json() without awaiting it.
clip_transcode(site, a, l, respJsonData, read) ==
    LET l2 == [l EXCEPT !.respJsonData = respJsonData]
    IN  IF site = "streamja" THEN K(Exc("TypeError"), l2, read)
        ELSE IF ~Has(respJsonData, "shortcode") THEN K(Exc("KeyError"), l2, read)
        ELSE K(Go(ClipTranscodeRequest(site, respJsonData["shortcode"], l2,
                                       a.mirror_title),
                  "cl_transcode"), l2, read)

\* lines 464-488 and their copies: after the shortcode registration.  When
\* res.ok holds `or' does not evaluate its right side, and respJsonData is
\* still the JSON of the extract response.
clip_register(site, a, l, res) ==
    IF res.ok THEN clip_transcode(site, a, l, l.respJsonData, FALSE)
    ELSE IF res.body.kind # "json" THEN K(Exc("ContentTypeError"), l, TRUE)
    ELSE IF NoError(res.body.json) THEN clip_transcode(site, a, l, res.body.json, TRUE)
    ELSE K(Ret(res), [l EXCEPT !.respJsonData = res.body.json], TRUE)

\* the site a running clip chain is about
ClipSite == args.site

clip_call ==
    /\ Idle
    /\ \E site \in ClipSites, v \in VideoIds, t \in MirrorTitles :
           LET a == [site |-> site, video_id |-> v, mirror_title |-> t]
           IN  Start("Streamable", "Streamable.clip_video", a, clip(site, a))

clip_after_lookup ==
    /\ pc = "cl_lookup"
    /\ \E r \in Responses(Len(calls), VideoLinkBodies) :
           Resume(r, clip_lookup(args, loc, r))

clip_after_extract ==
    /\ pc = "cl_extract"
    /\ \E r \in Responses(Len(calls), ExtractBodies) :
           Resume(r, clip_extract(ClipSite, args, loc, r))

clip_after_register ==
    /\ pc = "cl_register"
    /\ \E r \in Responses(Len(calls), RegisterBodies) :
           Resume(r, clip_register(ClipSite, args, loc, r))

\* lines 488, 536, 584, 639: the response of the transcode request is returned
clip_done ==
    /\ pc = "cl_transcode"
    /\ \E r \in Responses(Len(calls), PlainBodies) : Resume(r, K(Ret(r), loc, FALSE))

-----------------------------------------------------------------------------
Init ==
    /\ hdr \in {<< >>} \cup {<<h>> : h \in CallerHeaders}
    /\ client = [cls |-> "none", session |-> NoSession]
    /\ setups = NoSetup
    /\ pc = "idle"
    /\ op = "none"
    /\ args = EmptyDict
    /\ loc = EmptyDict
    /\ calls = << >>
    /\ resps = << >>
    /\ parsed = {}
    /\ ret = << >>
    /\ err = "none"

ConstructClient ==
    \E cls \in Classes, s \in {NoSession} \cup (1 .. Len(hdr)), ua \in UserAgentArgs :
        Construct(cls, s, ua)

Next ==
    \/ ConstructClient
    \/ Imgur_upload_media_call
    \/ Imgur_upload_media_done
    \/ Streamable_upload_video_call
    \/ Streamable_upload_video_after_slot
    \/ Streamable_upload_video_after_meta
    \/ Streamable_upload_video_after_transfer
    \/ Streamable_upload_video_done
    \/ Streamff_upload_video_call
    \/ Streamff_upload_video_after_link
    \/ Streamff_upload_video_done
    \/ Streamja_upload_video_call
    \/ Streamja_upload_video_after_id
    \/ Streamja_upload_video_done
    \/ get_video_call
    \/ get_video_after_page
    \/ get_video_done
    \/ mirror_streamff_video_call
    \/ mirror_streamff_video_after_page
    \/ mirror_streamff_video_after_media
    \/ mirror_streamff_video_done
    \/ clip_call
    \/ clip_after_lookup
    \/ clip_after_extract
    \/ clip_after_register
    \/ clip_done

Spec == Init /\ [][Next]_vars

-----------------------------------------------------------------------------
(* What the requests of a call are, read off the log *)

IsSlotRequest(q)    == q.method = "GET" /\ q.url = <<Streamable_api_url, "/shortcode">>
IsSetMetadata(q)    == q.method = "PUT" /\ Len(q.url) = 3 /\ q.url[2] = "/videos/"
IsTransfer(q)       == q.method = "S3.upload_fileobj"
IsTranscode(q)      == q.method = "POST" /\ Len(q.url) = 3 /\ q.url[2] = "/transcode/"
IsExtract(q)        == q.method = "GET" /\ q.url = <<Streamable_api_url, "/extract">>
IsRegister(q)       == q.method = "POST" /\ q.url = <<Streamable_api_url, "/videos">>
IsMirrorUpload(q)   == q.method = "POST" /\ q.url = <<JustStreamLive_api_url, "/videos/upload">>
IsStreamffUpload(q) == q.method = "POST" /\ Len(q.url) = 4 /\ q.url[2] = "/api/videos/upload/"
IsGenerateLink(q)   ==
    q.method = "POST" /\ q.url = <<Streamff_base_url, "/api/videos/generate-link">>

Issued(P(_)) == \E i \in 1 .. Len(calls) : P(calls[i])

\* the call has returned response r, and raised nothing
Returned(r) == pc = "done" /\ ret = <<r>> /\ err = "none"

\* the call has ended in exception e, returning nothing
Raised(e) == pc = "done" /\ err = e /\ ret = << >>

\* a filename whose last four characters are ".mp4"
IsVideoName(f) ==
    /\ Len(f) >= 4
    /\ f[Len(f) - 3] = "." /\ f[Len(f) - 2] = "m" /\ f[Len(f) - 1] = "p" /\ f[Len(f)] = "4"

-----------------------------------------------------------------------------
(* Claims *)

\* C1: in Streamable.upload_video, when the slot-allocation response is not a
\* success, no set-metadata request, no storage transfer and no start-transcode
\* request is issued, and that response is what the call returns.
C1_SlotFailureStopsUpload ==
    (op = "Streamable.upload_video" /\ Len(resps) >= 1 /\ ~resps[1].ok) =>
        /\ IsSlotRequest(calls[1])
        /\ ~Issued(IsSetMetadata) /\ ~Issued(IsTransfer) /\ ~Issued(IsTranscode)
        /\ Len(calls) = 1
        /\ Returned(resps[1])

C1_Witness ==
    /\ op = "Streamable.upload_video"
    /\ Len(resps) = 1 /\ ~resps[1].ok
    /\ resps[1].body.kind = "json" /\ SlotKeys \subseteq DOMAIN resps[1].body.json
    /\ Returned(resps[1])

\* C2: in Streamable.upload_video, when slot allocation succeeds and the
\* set-metadata response is not a success, the storage transfer and the
\* start-transcode request are skipped and the set-metadata response is what
\* the call returns.
C2_MetadataFailureStopsUpload ==
    (op = "Streamable.upload_video" /\ Len(resps) >= 2 /\ resps[1].ok /\ ~resps[2].ok) =>
        /\ IsSetMetadata(calls[2])
        /\ ~Issued(IsTransfer) /\ ~Issued(IsTranscode)
        /\ Len(calls) = 2
        /\ Returned(resps[2])

C2_Witness ==
    /\ op = "Streamable.upload_video"
    /\ Len(resps) = 2 /\ resps[1].ok /\ ~resps[2].ok
    /\ IsSetMetadata(calls[2])
    /\ Returned(resps[2])

\* the extract response of a clip chain reports an error: a success response
\* whose JSON has a non-null error field
ExtractReportsError(i) ==
    /\ i <= Len(resps)
    /\ IsExtract(calls[i])
    /\ resps[i].ok
    /\ resps[i].body.kind = "json"
    /\ Has(resps[i].body.json, "error")
    /\ resps[i].body.json["error"] # NoneVal

\* C3: in each of the four clip chains, when the extract response is a success
\* whose body carries a non-null error field, no shortcode-registration request
\* and no transcode request is issued, and the extract response is what the
\* call returns.
C3_ExtractErrorStopsClip ==
    op = "Streamable.clip_video" =>
        \A i \in 1 .. Len(calls) :
            ExtractReportsError(i) =>
                /\ ~Issued(IsRegister) /\ ~Issued(IsTranscode)
                /\ Len(calls) = i
                /\ Returned(resps[i])

C3_Witness ==
    /\ op = "Streamable.clip_video"
    /\ args.site = "streamja"
    /\ ExtractReportsError(1)
    /\ Has(resps[1].body.json, "url") /\ Has(resps[1].body.json, "headers")
    /\ Returned(resps[1])

\* C4: Imgur.upload_media with a filename that does not end in ".mp4" fails
\* with the unsupported-media-type error with no request issued; with a
\* filename that ends in ".mp4" it raises nothing and issues exactly one POST.
C4_NonVideoRejectedBeforeRequest ==
    op = "Imgur.upload_media" =>
        IF IsVideoName(args.media_filename)
        THEN /\ err = "none"
             /\ Len(calls) = 1 /\ calls[1].method = "POST"
             /\ calls[1].url = <<Imgur_api_url, "/3/image">>
        ELSE /\ Raised("UnsupportedMediaType")
             /\ calls = << >> /\ resps = << >>

C4_Witness ==
    /\ op = "Imgur.upload_media"
    /\ args.media_filename = <<"a">> \o DotMp4 \o <<"x">>
    /\ Raised("UnsupportedMediaType")
    /\ calls = << >>

GetVideoOps == {cls \o ".get_video" : cls \in GetVideoClasses}

\* C5: in get_video of Streamja, Streamwo, Streamff and Streamable, when the
\* first fetch is not a success, that response is returned, no body is parsed
\* and no second request is issued.
C5_FailedFetchReturnedUnparsed ==
    (op \in GetVideoOps /\ Len(resps) >= 1 /\ ~resps[1].ok) =>
        /\ Returned(resps[1])
        /\ parsed = {}
        /\ Len(calls) = 1

C5_Witness ==
    /\ op = "Streamja.get_video"
    /\ Len(resps) = 1 /\ ~resps[1].ok
    /\ find_all(resps[1].body.tags, "source", EmptyDict) # << >>
    /\ Returned(resps[1])
    /\ parsed = {}

\* the User-Agent header that _client_session_setup must leave on the session
ExpectedHeader(found, user_agent) ==
    CASE found # Absent        -> found
      [] user_agent # NoneVal  -> user_agent
      [] OTHER                 -> default_user_agent

\* C6: after _client_session_setup the session carries a User-Agent header:
\* the one it already had, else the override when one was given, else the
\* library default; and a User-Agent header, once on a session, is never
\* replaced, however many clients are constructed over that session.
C6_UserAgentSetOnceNeverReplaced ==
    /\ [](setups.ran =>
            /\ hdr[client.session] # Absent
            /\ hdr[client.session] = ExpectedHeader(setups.found, setups.user_agent))
    /\ [][/\ Len(hdr') >= Len(hdr)
          /\ \A s \in 1 .. Len(hdr) : hdr[s] # Absent => hdr'[s] = hdr[s]]_vars

C6_Witness ==
    /\ setups.ran
    /\ setups.found = default_user_agent
    /\ setups.user_agent = "caller-agent"
    /\ hdr[client.session] = default_user_agent

\* C7: in JustStreamLive.mirror_streamff_video, when Streamff.get_video returns
\* a response that is not a success (its first fetch, or its second), that
\* response is returned and no upload is issued; the upload is issued only
\* after both fetches of the resolution succeeded.
C7_FailedResolutionSkipsUpload ==
    op = "JustStreamLive.mirror_streamff_video" =>
        /\ \A i \in 1 .. Len(resps) :
               (i <= 2 /\ ~resps[i].ok) =>
                   /\ Returned(resps[i])
                   /\ Len(calls) = i
                   /\ ~Issued(IsMirrorUpload)
        /\ \A i \in 1 .. Len(calls) :
               IsMirrorUpload(calls[i]) =>
                   /\ i = 3
                   /\ resps[1].ok /\ resps[2].ok
                   /\ calls[i].data.content_of = 2

C7_Witness ==
    /\ op = "JustStreamLive.mirror_streamff_video"
    /\ Len(resps) = 2 /\ resps[1].ok /\ ~resps[2].ok
    /\ Returned(resps[2])
    /\ ~Issued(IsMirrorUpload)

\* C8: in Streamff.upload_video, when the generate-link response is not a
\* success, the call fails with the unexpected-response error, returns no
\* response, and the upload POST is never issued.
C8_FailedLinkRaises ==
    (op = "Streamff.upload_video" /\ Len(resps) >= 1 /\ ~resps[1].ok) =>
        /\ Raised("UnexpectedResponse")
        /\ ~Issued(IsStreamffUpload)
        /\ Len(calls) = 1

C8_Witness ==
    /\ op = "Streamff.upload_video"
    /\ Len(resps) = 1 /\ ~resps[1].ok
    /\ Raised("UnexpectedResponse")

LocalErrors == {"UnsupportedMediaType", "UnexpectedResponse"}

\* C9 as stated: whenever a call ends in the unsupported-media-type error or
\* in the unexpected-response error, it has issued no request.
C9_LocalErrorsBeforeAnyRequest ==
    err \in LocalErrors => calls = << >>

\* C9 as amended: the unsupported-media-type error is raised by
\* Imgur.upload_media with no request issued; the unexpected-response error is
\* raised by Streamff.upload_video after exactly one request, the generate-link
\* POST, was answered with a non-success response, and before the upload POST.
C9_LocalErrorsAndRequests ==
    /\ err = "UnsupportedMediaType" =>
           op = "Imgur.upload_media" /\ calls = << >>
    /\ err = "UnexpectedResponse" =>
           /\ op = "Streamff.upload_video"
           /\ Len(calls) = 1 /\ IsGenerateLink(calls[1])
           /\ Len(resps) = 1 /\ ~resps[1].ok
           /\ ~Issued(IsStreamffUpload)

C9_Witness ==
    /\ err = "UnexpectedResponse"
    /\ Len(calls) = 1 /\ IsGenerateLink(calls[1])
    /\ Len(resps) = 1 /\ ~resps[1].ok

\* the position of the first <source> tag of a page, 0 when it has none
FirstSourceAt(page) ==
    IF \E i \in 1 .. Len(page) : page[i].name = "source"
    THEN CHOOSE i \in 1 .. Len(page) :
             /\ page[i].name = "source"
             /\ \A j \in 1 .. i - 1 : page[j].name # "source"
    ELSE 0

\* get_video of Streamja or Streamwo got a success page with a <source> tag
SourcePageFetched ==
    /\ op \in {"Streamja.get_video", "Streamwo.get_video"}
    /\ Len(resps) >= 1 /\ resps[1].ok
    /\ FirstSourceAt(resps[1].body.tags) # 0

\* exactly one further request, for the src of the first <source> tag, whose
\* response is what the call returns
SecondRequestIsFirstSource ==
    LET t == resps[1].body.tags[FirstSourceAt(resps[1].body.tags)]
    IN  /\ err = "none"
        /\ Len(calls) = 2
        /\ Has(t.attrs, "src")
        /\ calls[2] = Req("GET", <<t.attrs["src"]>>, EmptyDict)
        /\ Len(resps) >= 2 => Returned(resps[2])

\* C10 as stated: in get_video of Streamja and Streamwo, when the page fetch
\* succeeds and the page has one or more <source> tags, exactly one further
\* request is issued, for the src of the first <source> tag, and its response
\* is what the call returns.
C10_SecondRequestForFirstSource ==
    SourcePageFetched => SecondRequestIsFirstSource

\* C10 as amended: the same, for pages whose first <source> tag has a src
\* attribute.
C10_SecondRequestForFirstSourceWithSrc ==
    (/\ SourcePageFetched
     /\ Has(resps[1].body.tags[FirstSourceAt(resps[1].body.tags)].attrs, "src"))
        => SecondRequestIsFirstSource

C10_Witness ==
    /\ op = "Streamwo.get_video"
    /\ Len(resps) = 2 /\ resps[1].ok
    /\ Len(resps[1].body.tags) = 2
    /\ resps[1].body.tags[1] = Tag("source", [src |-> "https://cdn/abc123.mp4"])
    /\ resps[1].body.tags[2] = Tag("source", [src |-> "https://cdn/other.mp4"])
    /\ calls[2].url = <<"https://cdn/abc123.mp4">>
    /\ Returned(resps[2])

\* the steps of the upload chain, in the order of the method body
UploadStep(i, q) ==
    CASE i = 1 -> IsSlotRequest(q)
      [] i = 2 -> IsSetMetadata(q)
      [] i = 3 -> IsTransfer(q)
      [] i = 4 -> IsTranscode(q)
      [] OTHER -> FALSE

\* C11: in every run of Streamable.upload_video the external calls are a prefix
\* of request-slot, set-metadata, transfer, start-transcode: each is issued at
\* most once and in that order, none before the one before it has completed,
\* and start-transcode only after the transfer has completed.
C11_UploadStepsInOrder ==
    op = "Streamable.upload_video" =>
        /\ \A i \in 1 .. Len(calls) : UploadStep(i, calls[i])
        /\ Len(resps) <= Len(calls)
        /\ Len(calls) <= Len(resps) + 1
        /\ \A i \in 1 .. Len(resps) : resps[i].n = i
        /\ Issued(IsTranscode) => Len(resps) >= 3 /\ resps[3] = TransferDone(3)

C11_Witness ==
    /\ op = "Streamable.upload_video"
    /\ Len(calls) = 4 /\ IsTranscode(calls[4])
    /\ Len(resps) = 4 /\ resps[3] = TransferDone(3)
    /\ Returned(resps[4])

\* the shortcode registration of a clip chain, call i, was answered and the
\* answer is not a success
RegistrationFailed(i) ==
    /\ i <= Len(resps)
    /\ IsRegister(calls[i])
    /\ ~resps[i].ok

\* C12: in each of the four clip chains, when extraction succeeds and the
\* shortcode registration is answered with a non-success response, no
\* transcode request is issued and the registration response is what the call
\* returns.
C12_FailedRegistrationStopsClip ==
    op = "Streamable.clip_video" =>
        \A i \in 1 .. Len(calls) :
            RegistrationFailed(i) =>
                /\ ~Issued(IsTranscode)
                /\ Len(calls) = i
                /\ Returned(resps[i])

\* the transcode request, call i of a clip chain, carries the shortcode of the
\* registration response of the chain, and the url and headers of its extract
\* response
TranscodeFromOwnChain(i) ==
    \E e \in 1 .. i - 1, g \in 1 .. i - 1 :
        /\ IsExtract(calls[e]) /\ IsRegister(calls[g])
        /\ resps[e].body.kind = "json" /\ resps[g].body.kind = "json"
        /\ Has(resps[g].body.json, "shortcode")
        /\ calls[i].url[3] = resps[g].body.json["shortcode"]
        /\ calls[i].data.shortcode = resps[g].body.json["shortcode"]
        /\ Has(resps[e].body.json, "url") /\ Has(resps[e].body.json, "headers")
        /\ calls[i].data.url = resps[e].body.json["url"]
        /\ calls[i].data.headers = resps[e].body.json["headers"]

\* C13: in each clip chain, whenever a transcode request is issued, the
\* shortcode in its path and body is the one carried by the registration
\* response of that chain, not a value of the extract response, and its url and
\* headers are the ones carried by the extract response of that chain.
C13_TranscodeUsesRegisteredShortcode ==
    op = "Streamable.clip_video" =>
        \A i \in 1 .. Len(calls) : IsTranscode(calls[i]) => TranscodeFromOwnChain(i)

IsShortIdRequest(q) == q.method = "POST" /\ q.url = <<Streamja_base_url, "/shortId.php">>
IsStreamjaUpload(q) == q.method = "POST" /\ q.url = <<Streamja_base_url, "/upload.php">>

\* a response that is a success and whose body has no error field
OkWithoutErrorField(r) == r.ok /\ ~(r.body.kind = "json" /\ Has(r.body.json, "error"))

\* C14: in Streamja.upload_video the upload POST is issued only if the short-ID
\* generation response is a success whose body has no error field, and then it
\* carries the shortId of that response; in every other case no upload POST is
\* issued and the generation response is what the call returns.  At most two
\* requests are issued per call.
C14_UploadOnlyAfterShortId ==
    op = "Streamja.upload_video" =>
        /\ Len(calls) <= 2
        /\ IsShortIdRequest(calls[1])
        /\ \A i \in 1 .. Len(calls) :
               IsStreamjaUpload(calls[i]) =>
                   /\ i = 2
                   /\ OkWithoutErrorField(resps[1])
                   /\ resps[1].body.kind = "json" /\ Has(resps[1].body.json, "shortId")
                   /\ calls[i].data.shortId = resps[1].body.json["shortId"]
        /\ (Len(resps) >= 1 /\ ~OkWithoutErrorField(resps[1])) =>
               /\ ~Issued(IsStreamjaUpload)
               /\ Len(calls) = 1
               /\ Returned(resps[1])

C14_Witness ==
    /\ op = "Streamja.upload_video"
    /\ Len(calls) = 2 /\ IsStreamjaUpload(calls[2])
    /\ calls[2].data.shortId = "idB"
    /\ resps[1].body.json["shortId"] = "idB"
    /\ Len(resps) = 2 /\ Returned(resps[2])

=============================================================================
